---- MODULE Spec2Model ----
(***************************************************************************)
(* Model of the mapval package of libbeat:                                 *)
(*   - results.go : Results, record, EachResult, DetailedErrors, Errors    *)
(*   - the value predicates KeyPresent, KeyMissing, IsAny,                 *)
(*     IsStringContaining, IsDuration, IsEqual, IsNil, IsIntGt             *)
(* Two specifications: Spec drives one Results object, SpecIs evaluates    *)
(* the predicates.                                                         *)
(***************************************************************************)
EXTENDS Integers, Sequences, FiniteSets, TLC

VARIABLES Fields, Valid, pc, order, pi, ri, calls, ret,
          of, v, keyExists, ipc, i, evaluated, vr

rvars == <<Fields, Valid, pc, order, pi, ri, calls, ret>>
ivars == <<of, v, keyExists, ipc, i, evaluated, vr>>
vars == <<Fields, Valid, pc, order, pi, ri, calls, ret,
          of, v, keyExists, ipc, i, evaluated, vr>>

----------------------------------------------------------------------------
(* Bounds *)

\* number of record calls made on the Results object
MaxRecords == 4
\* number of candidates handed to IsAny
MaxDefs == 3
\* length of the strings used as actual values and as needles
MaxStrLen == 2

----------------------------------------------------------------------------
(* Generic helpers *)

\* all orders in which a Go map with key set S can be ranged over
Perms(S) ==
  {s \in [1..Cardinality(S) -> S] :
     \A a, b \in 1..Cardinality(S) : a # b => s[a] # s[b]}

RECURSIVE SeqsUpTo(_, _)
SeqsUpTo(S, n) ==
  IF n = 0 THEN {<<>>}
  ELSE LET shorter == SeqsUpTo(S, n - 1)
       IN shorter \cup {Append(s, x) : s \in {t \in shorter : Len(t) = n - 1}, x \in S}

RECURSIVE SumLen(_, _)
SumLen(f, S) ==
  IF S = {} THEN 0
  ELSE LET p == CHOOSE q \in S : TRUE
       IN Len(f[p]) + SumLen(f, S \ {p})

\* a string built by fmt.Sprintf: the format followed by its arguments; a
\* string literal is the one-element sequence, the empty string the empty one
Sprintf(format, args) == <<format>> \o args

----------------------------------------------------------------------------
(* ValueResult *)

ValueResult(valid, message) == [Valid |-> valid, Message |-> message]

ValidVR == ValueResult(TRUE, <<>>)

KeyMissingVR == ValueResult(FALSE, <<"expected to see a key here">>)

----------------------------------------------------------------------------
(* results.go *)

\* dotted paths the walker records under
Paths == {"a", "a.b", "c"}

\* results handed to record
RecordedResults ==
  {ValidVR, ValueResult(FALSE, <<"m1">>), ValueResult(FALSE, <<"m2">>)}

Results(fields, valid) == [Fields |-> fields, Valid |-> valid]

\* an empty map: no key is present
EmptyFields == [p \in {} |-> <<>>]

NewResults == Results(EmptyFields, TRUE)

recordOverwriteValid(r, path, result) ==
  Results(
    [p \in DOMAIN r.Fields \cup {path} |->
       IF p = path
         THEN IF path \notin DOMAIN r.Fields
                THEN <<result>>
                ELSE Append(r.Fields[path], result)
         ELSE r.Fields[p]],
    result.Valid)

recordNoFold(r, path, result) ==
  Results(
    [p \in DOMAIN r.Fields \cup {path} |->
       IF p = path
         THEN IF path \notin DOMAIN r.Fields
                THEN <<result>>
                ELSE Append(r.Fields[path], result)
         ELSE r.Fields[p]],
    r.Valid)

recordPrepend(r, path, result) ==
  Results(
    [p \in DOMAIN r.Fields \cup {path} |->
       IF p = path
         THEN IF path \notin DOMAIN r.Fields
                THEN <<result>>
                ELSE <<result>> \o r.Fields[path]
         ELSE r.Fields[p]],
    IF ~result.Valid THEN FALSE ELSE r.Valid)

\* r.Fields[path] is nil exactly when the map has no entry for path:
\* record never stores an empty slice
record(r, path, result) ==
  Results(
    [p \in DOMAIN r.Fields \cup {path} |->
       IF p = path
         THEN IF path \notin DOMAIN r.Fields
                THEN <<result>>
                ELSE Append(r.Fields[path], result)
         ELSE r.Fields[p]],
    IF ~result.Valid THEN FALSE ELSE r.Valid)

\* the inner loop of EachResult over one path, visitor always returning true
RECURSIVE PathVisits(_, _, _)
PathVisits(path, pathResults, k) ==
  IF k > Len(pathResults) THEN <<>>
  ELSE <<[path |-> path, result |-> pathResults[k]]>>
         \o PathVisits(path, pathResults, k + 1)

\* the calls EachResult makes to a visitor that always returns true, when
\* the map is ranged over in the order ord
RECURSIVE EachResultVisits(_, _, _)
EachResultVisits(fields, ord, k) ==
  IF k > Len(ord) THEN <<>>
  ELSE PathVisits(ord[k], fields[ord[k]], 1)
         \o EachResultVisits(fields, ord, k + 1)

RECURSIVE DetailedErrorsFoldAll(_, _, _)
DetailedErrorsFoldAll(errors, visits, k) ==
  IF k > Len(visits) THEN errors
  ELSE DetailedErrorsFoldAll(
         record(errors, visits[k].path, visits[k].result), visits, k + 1)

\* the callback of DetailedErrors applied to each visit in turn
RECURSIVE DetailedErrorsFold(_, _, _)
DetailedErrorsFold(errors, visits, k) ==
  IF k > Len(visits) THEN errors
  ELSE DetailedErrorsFold(
         IF ~visits[k].result.Valid
           THEN record(errors, visits[k].path, visits[k].result)
           ELSE errors,
         visits, k + 1)

DetailedErrors(r, ord) ==
  DetailedErrorsFold(NewResults, EachResultVisits(r.Fields, ord, 1), 1)

ValueResultError(path, valueResult) ==
  [path |-> path, valueResult |-> valueResult]

\* ValueResultError.Error
Error(vre) == Sprintf("@path '%s': %s", <<vre.path, vre.valueResult.Message>>)

RECURSIVE ErrorsFoldNoPath(_, _, _)
ErrorsFoldNoPath(errors, visits, k) ==
  IF k > Len(visits) THEN errors
  ELSE ErrorsFoldNoPath(
         IF ~visits[k].result.Valid
           THEN Append(errors, ValueResultError("", visits[k].result))
           ELSE errors,
         visits, k + 1)

\* the callback of Errors applied to each visit in turn
RECURSIVE ErrorsFold(_, _, _)
ErrorsFold(errors, visits, k) ==
  IF k > Len(visits) THEN errors
  ELSE ErrorsFold(
         IF ~visits[k].result.Valid
           THEN Append(errors, ValueResultError(visits[k].path, visits[k].result))
           ELSE errors,
         visits, k + 1)

\* make([]error, 0) is a non-nil slice, and append keeps it non-nil
Errors(r, ord) ==
  [isNil |-> FALSE,
   errs |-> ErrorsFold(<<>>, EachResultVisits(r.Fields, ord, 1), 1)]

----------------------------------------------------------------------------
(* Values: the dynamically typed actual values a predicate is handed *)

NilValue == [type |-> "nil", val |-> 0]

IntValue(n) == [type |-> "int", val |-> n]

StringValue(s) == [type |-> "string", val |-> s]

DurationValue(n) == [type |-> "time.Duration", val |-> n]

\* a []string handed to Sprintf
StringSlice(s) == [type |-> "[]string", val |-> s]

Alphabet == {"a", "b"}

Strings == SeqsUpTo(Alphabet, MaxStrLen)

Values ==
  {NilValue} \cup {IntValue(n) : n \in {0, 1, 42}}
             \cup {StringValue(s) : s \in Strings}
             \cup {DurationValue(n) : n \in {1}}

----------------------------------------------------------------------------
(* IsDef and its check *)

\* the checker of an IsDef built as a struct literal without one
NilFunc == <<"nil">>

Closure(kind, arg) == <<kind, arg>>

IsDef(name, checker, checkKeyMissing) ==
  [name |-> name, checker |-> checker, checkKeyMissing |-> checkKeyMissing]

Is(name, checker) == IsDef(name, checker, FALSE)

KeyPresent == IsDef("check key present", NilFunc, FALSE)

KeyMissing == IsDef("check key not present", NilFunc, TRUE)

\* strings.Contains(s, substr)
Contains(s, substr) ==
  \E k \in 0..(Len(s) - Len(substr)) : SubSeq(s, k + 1, k + Len(substr)) = substr

IsStringContainingSwapped(needle, val) ==
  IF val.type # "string"
    THEN ValueResult(FALSE, Sprintf("Unable to convert '%v' to string", <<val>>))
    ELSE IF ~Contains(needle, val.val)
      THEN ValueResult(FALSE,
             Sprintf("String '%s' did not contain substring '%s'",
                     <<val, StringValue(needle)>>))
      ELSE ValidVR

\* the closure IsStringContaining(needle) hands to Is
IsStringContainingChecker(needle, val) ==
  IF val.type # "string"
    THEN ValueResult(FALSE, Sprintf("Unable to convert '%v' to string", <<val>>))
    ELSE IF ~Contains(val.val, needle)
      THEN ValueResult(FALSE,
             Sprintf("String '%s' did not contain substring '%s'",
                     <<val, StringValue(needle)>>))
      ELSE ValidVR

IsStringContaining(needle) ==
  Is("is string containing", Closure("IsStringContaining", needle))

\* the closure of IsDuration
IsDurationChecker(val) ==
  IF val.type = "time.Duration"
    THEN ValidVR
    ELSE ValueResult(FALSE,
           Sprintf("Expected a time.duration, got '%v' which is a %T", <<val, val>>))

IsDuration == Is("is a duration", Closure("IsDuration", 0))

\* the closure IsEqual(to) hands to Is; assert.ObjectsAreEqual holds of two
\* values of this universe when they have the same type and the same content
IsEqualChecker(to, val) ==
  IF val = to
    THEN ValidVR
    ELSE ValueResult(FALSE,
           Sprintf("objects not equal: actual(%v) != expected(%v)", <<val, to>>))

IsEqual(to) == Is("equals", Closure("IsEqual", to))

\* the closure of IsNil
IsNilChecker(val) ==
  IF val = NilValue
    THEN ValidVR
    ELSE ValueResult(FALSE, Sprintf("Value %v is not nil", <<val>>))

IsNil == Is("is nil", Closure("IsNil", 0))

intGtChecker(than, val) ==
  IF val.type # "int"
    THEN ValueResult(FALSE,
           Sprintf("%v is a %T, but was expecting an int!", <<val, val>>))
    ELSE IF val.val > than
      THEN ValidVR
      ELSE ValueResult(FALSE,
             Sprintf("%v is not greater than %v", <<val, IntValue(than)>>))

IsIntGt(than) == Is("greater than", Closure("intGtChecker", than))

\* a predicate a caller builds with Is: valid with a message of its own on
\* an int, invalid on anything else
CallerChecker(val) ==
  IF val.type = "int"
    THEN ValueResult(TRUE, Sprintf("an int: %v", <<val>>))
    ELSE ValueResult(FALSE, Sprintf("not an int: %v", <<val>>))

IsCallerDef == Is("caller's check", Closure("CallerChecker", 0))

\* id.checker(v), for the closures above; the closure of IsAny is run step
\* by step by the actions IsAnyLoop and IsAnyNone
ApplyChecker(checker, val) ==
  CASE checker[1] = "IsStringContaining" -> IsStringContainingChecker(checker[2], val)
    [] checker[1] = "IsDuration" -> IsDurationChecker(val)
    [] checker[1] = "IsEqual" -> IsEqualChecker(checker[2], val)
    [] checker[1] = "IsNil" -> IsNilChecker(val)
    [] checker[1] = "intGtChecker" -> intGtChecker(checker[2], val)
    [] checker[1] = "CallerChecker" -> CallerChecker(val)

\* whether id.check(v, keyExists) gets as far as calling id.checker
CallsChecker(id, exists) ==
  /\ ~id.checkKeyMissing
  /\ exists
  /\ id.checker # NilFunc

\* id.check(v, keyExists)
check(id, val, exists) ==
  IF id.checkKeyMissing
    THEN IF ~exists
           THEN ValidVR
           ELSE ValueResult(FALSE, <<"key should not exist!">>)
    ELSE IF ~exists
      THEN KeyMissingVR
      ELSE IF id.checker = NilFunc
        THEN ValidVR
        ELSE ApplyChecker(id.checker, val)

\* names[i] = def.name
Names(defs) == [k \in 1..Len(defs) |-> defs[k].name]

\* the IsDef IsAny(of...) returns
IsAny(defs) ==
  Is(Sprintf("either %#v", <<StringSlice(Names(defs))>>), Closure("IsAny", defs))

\* the predicates checked on their own
LeafDefs ==
  {KeyPresent, KeyMissing, IsNil, IsDuration, IsCallerDef}
    \cup {IsIntGt(than) : than \in {0, 5}}
    \cup {IsEqual(to) : to \in {NilValue, IntValue(1), StringValue(<<"a">>)}}
    \cup {IsStringContaining(needle) : needle \in Strings}

\* the predicates handed to IsAny
CandidateDefs ==
  {KeyPresent, KeyMissing, IsNil, IsDuration, IsCallerDef, IsIntGt(0),
   IsStringContaining(<<"a">>), IsStringContaining(<<"a", "b">>)}

----------------------------------------------------------------------------
(* The Results specification: one Results object, its mutator and queries *)

NoReturn == [none |-> TRUE]

\* the predicate variables do not take part in the Results specification
IsIdle ==
  /\ of = <<>>
  /\ v = NilValue
  /\ keyExists = TRUE
  /\ ipc = "off"
  /\ i = 0
  /\ evaluated = <<>>
  /\ vr = NoReturn

\* r := NewResults()
Init ==
  /\ Fields = NewResults.Fields
  /\ Valid = NewResults.Valid
  /\ pc = "idle"
  /\ order = <<>>
  /\ pi = 0
  /\ ri = 0
  /\ calls = <<>>
  /\ ret = NoReturn
  /\ IsIdle

NumRecords == SumLen(Fields, DOMAIN Fields)

\* r.record(path, result); what an earlier query returned is dropped
Record ==
  /\ pc # "each"
  /\ NumRecords < MaxRecords
  /\ \E path \in Paths, result \in RecordedResults :
       LET r == record(Results(Fields, Valid), path, result)
       IN /\ Fields' = r.Fields
          /\ Valid' = r.Valid
  /\ pc' = "idle"
  /\ order' = <<>>
  /\ pi' = 0
  /\ ri' = 0
  /\ calls' = <<>>
  /\ ret' = NoReturn
  /\ UNCHANGED ivars

\* r.EachResult(f) is entered: the range over the map picks an order
EachResultCall ==
  /\ pc # "each"
  /\ \E ord \in Perms(DOMAIN Fields) : order' = ord
  /\ pc' = "each"
  /\ pi' = 1
  /\ ri' = 1
  /\ calls' = <<>>
  /\ ret' = NoReturn
  /\ UNCHANGED <<Fields, Valid>>
  /\ UNCHANGED ivars

EachResultVisitIgnoreStop ==
  /\ pc = "each"
  /\ pi <= Len(order)
  /\ ri <= Len(Fields[order[pi]])
  /\ \E keep \in BOOLEAN :
       /\ calls' = Append(calls, [path |-> order[pi],
                                  result |-> Fields[order[pi]][ri],
                                  keep |-> keep])
       /\ pc' = pc
       /\ ri' = ri + 1
       /\ pi' = pi
  /\ UNCHANGED <<Fields, Valid, order, ret>>
  /\ UNCHANGED ivars

\* one pass of the inner loop: f(path, result), and return when it says false
EachResultVisit ==
  /\ pc = "each"
  /\ pi <= Len(order)
  /\ ri <= Len(Fields[order[pi]])
  /\ \E keep \in BOOLEAN :
       /\ calls' = Append(calls, [path |-> order[pi],
                                  result |-> Fields[order[pi]][ri],
                                  keep |-> keep])
       /\ IF ~keep
            THEN pc' = "eachDone" /\ ri' = ri /\ pi' = pi
            ELSE pc' = pc /\ ri' = ri + 1 /\ pi' = pi
  /\ UNCHANGED <<Fields, Valid, order, ret>>
  /\ UNCHANGED ivars

\* the inner loop over one path is exhausted: the outer loop moves on
EachResultNextPath ==
  /\ pc = "each"
  /\ pi <= Len(order)
  /\ ri > Len(Fields[order[pi]])
  /\ pi' = pi + 1
  /\ ri' = 1
  /\ UNCHANGED <<Fields, Valid, pc, order, calls, ret>>
  /\ UNCHANGED ivars

\* the outer loop is exhausted: EachResult returns
EachResultReturn ==
  /\ pc = "each"
  /\ pi > Len(order)
  /\ pc' = "eachDone"
  /\ UNCHANGED <<Fields, Valid, order, pi, ri, calls, ret>>
  /\ UNCHANGED ivars

\* errors := r.DetailedErrors()
DetailedErrorsCall ==
  /\ pc # "each"
  /\ \E ord \in Perms(DOMAIN Fields) :
       /\ order' = ord
       /\ ret' = DetailedErrors(Results(Fields, Valid), ord)
  /\ pc' = "detailed"
  /\ pi' = 0
  /\ ri' = 0
  /\ calls' = <<>>
  /\ UNCHANGED <<Fields, Valid>>
  /\ UNCHANGED ivars

\* errs := r.Errors()
ErrorsCall ==
  /\ pc # "each"
  /\ \E ord \in Perms(DOMAIN Fields) :
       /\ order' = ord
       /\ ret' = Errors(Results(Fields, Valid), ord)
  /\ pc' = "errors"
  /\ pi' = 0
  /\ ri' = 0
  /\ calls' = <<>>
  /\ UNCHANGED <<Fields, Valid>>
  /\ UNCHANGED ivars

Next ==
  \/ Record
  \/ EachResultCall
  \/ EachResultVisit
  \/ EachResultNextPath
  \/ EachResultReturn
  \/ DetailedErrorsCall
  \/ ErrorsCall

Spec == Init /\ [][Next]_vars

----------------------------------------------------------------------------
(* Properties of Results *)

IsInvalid(result) == ~result.Valid

\* the failing records of one path, in recorded order
Failing(pathResults) == SelectSeq(pathResults, IsInvalid)

RECURSIVE CountInvalid(_, _)
CountInvalid(f, S) ==
  IF S = {} THEN 0
  ELSE LET p == CHOOSE q \in S : TRUE
       IN Len(Failing(f[p])) + CountInvalid(f, S \ {p})

\* the entries of a sequence of visits or errors that belong to path p
OfPath(s, p) ==
  LET AtP(e) == e.path = p
  IN SelectSeq(s, AtP)

\* C1: after any sequence of record calls on a new Results, Valid is true
\* exactly when every record stored under every path has Valid = true
C1_ValidIsConjunction ==
  Valid = (\A p \in DOMAIN Fields :
             \A k \in 1..Len(Fields[p]) : Fields[p][k].Valid)

\* a failing record followed by a valid one under the same path
C1_Witness ==
  /\ ~Valid
  /\ \E p \in DOMAIN Fields :
       /\ Len(Fields[p]) >= 2
       /\ ~Fields[p][1].Valid
       /\ Fields[p][2].Valid

\* C2: every record call appends its result to the sequence of its path
\* (earlier records keep index and content), leaves the other paths alone,
\* and Valid, once false, is never true again
C2_RecordAppendOnlyValidMonotone ==
  /\ [][Record =>
          \E path \in Paths, result \in RecordedResults :
            /\ DOMAIN Fields' = DOMAIN Fields \cup {path}
            /\ Fields'[path] =
                 (IF path \in DOMAIN Fields THEN Fields[path] ELSE <<>>)
                   \o <<result>>
            /\ \A q \in DOMAIN Fields \ {path} : Fields'[q] = Fields[q]]_vars
  /\ [][~Valid => ~Valid']_vars

\* two paths hold records, one of them a failing record followed by a
\* valid one recorded later
C2_Witness ==
  /\ ~Valid
  /\ Cardinality(DOMAIN Fields) >= 2
  /\ \E p \in DOMAIN Fields :
       /\ Len(Fields[p]) >= 2
       /\ Fields[p][1] = ValueResult(FALSE, <<"m1">>)
       /\ Fields[p][Len(Fields[p])] = ValidVR

\* C3: DetailedErrors() holds as many records as Fields holds failing ones,
\* Valid is false exactly when that number is not zero, and the Valid of
\* DetailedErrors() equals the Valid of the receiver
C3_DetailedErrorsComplete ==
  /\ ~Valid <=> CountInvalid(Fields, DOMAIN Fields) # 0
  /\ pc = "detailed" =>
       /\ SumLen(ret.Fields, DOMAIN ret.Fields)
            = CountInvalid(Fields, DOMAIN Fields)
       /\ ret.Valid = Valid

\* DetailedErrors() of a Results with two failing records and a valid one
\* recorded last
C3_Witness ==
  /\ pc = "detailed"
  /\ CountInvalid(Fields, DOMAIN Fields) = 2
  /\ NumRecords = 3
  /\ \E p \in DOMAIN Fields : Fields[p][Len(Fields[p])].Valid

\* C4: DetailedErrors() returns, path by path, exactly the failing records
\* of the receiver in their recorded order, has no key for a path without
\* failing records, leaves the receiver unchanged, and DetailedErrors() of
\* its result is its result
C4_DetailedErrorsView ==
  /\ [](pc = "detailed" =>
          /\ DOMAIN ret.Fields =
               {p \in DOMAIN Fields : Failing(Fields[p]) # <<>>}
          /\ \A p \in DOMAIN ret.Fields : ret.Fields[p] = Failing(Fields[p])
          /\ \A ord \in Perms(DOMAIN ret.Fields) :
               DetailedErrors(ret, ord) = ret)
  /\ [][pc' = "detailed" => UNCHANGED <<Fields, Valid>>]_vars

\* DetailedErrors() of a Results where one path holds two different
\* failing records around a valid one and another path holds no failure
C4_Witness ==
  /\ pc = "detailed"
  /\ \E p \in DOMAIN Fields :
       /\ Len(Fields[p]) = 3
       /\ Fields[p][1] = ValueResult(FALSE, <<"m2">>)
       /\ Fields[p][2] = ValidVR
       /\ Fields[p][3] = ValueResult(FALSE, <<"m1">>)
       /\ ret.Fields[p] = <<ValueResult(FALSE, <<"m2">>), ValueResult(FALSE, <<"m1">>)>>

\* C5: Errors() returns a non-nil sequence with one error per failing
\* record and none for a valid one; each error carries the path and the
\* message of its record and renders as "@path '<path>': <message>"; the
\* errors of one path are in recorded order
C5_ErrorsOnePerFailure ==
  pc = "errors" =>
    /\ ~ret.isNil
    /\ Len(ret.errs) = CountInvalid(Fields, DOMAIN Fields)
    /\ Valid => ret.errs = <<>>
    /\ \A k \in 1..Len(ret.errs) :
         /\ ret.errs[k].path \in DOMAIN Fields
         /\ Error(ret.errs[k]) =
              Sprintf("@path '%s': %s",
                      <<ret.errs[k].path, ret.errs[k].valueResult.Message>>)
    /\ \A p \in DOMAIN Fields :
         LET atP == OfPath(ret.errs, p)
         IN /\ Len(atP) = Len(Failing(Fields[p]))
            /\ \A k \in 1..Len(atP) :
                 atP[k].valueResult = Failing(Fields[p])[k]

\* Errors() where the errors of path "c" come before those of path "a",
\* and the two errors of "a" are in recorded order
C5_Witness ==
  /\ pc = "errors"
  /\ Len(ret.errs) = 3
  /\ ret.errs[1].path = "c"
  /\ ret.errs[2] = ValueResultError("a", ValueResult(FALSE, <<"m2">>))
  /\ ret.errs[3] = ValueResultError("a", ValueResult(FALSE, <<"m1">>))

\* C6: the calls EachResult has made are never followed by another call
\* once the visitor has returned false; when EachResult has returned and
\* the visitor always said true, every record of every path was visited
\* exactly once, the records of one path consecutively and in recorded
\* order; EachResult never modifies the Results
C6_EachResultEarlyStop ==
  /\ [](pc \in {"each", "eachDone"} =>
          /\ \A k \in 1..Len(calls) - 1 : calls[k].keep
          /\ (Len(calls) > 0 /\ ~calls[Len(calls)].keep) => pc = "eachDone"
          /\ \A p \in DOMAIN Fields :
               LET atP == OfPath(calls, p)
               IN /\ Len(atP) <= Len(Fields[p])
                  /\ \A k \in 1..Len(atP) : atP[k].result = Fields[p][k]
          /\ \A j, k \in 1..Len(calls) :
               (j < k /\ calls[j].path = calls[k].path) =>
                 \A m \in j..k : calls[m].path = calls[j].path
          /\ (pc = "eachDone" /\ \A k \in 1..Len(calls) : calls[k].keep) =>
               /\ Len(calls) = NumRecords
               /\ \A p \in DOMAIN Fields : Len(OfPath(calls, p)) = Len(Fields[p]))
  /\ [][(pc = "each" \/ pc' = "each") => UNCHANGED <<Fields, Valid>>]_vars

\* EachResult has returned after a visitor said false on the second of
\* three records, with two paths in the map
C6_Witness ==
  /\ pc = "eachDone"
  /\ NumRecords = 3
  /\ Cardinality(DOMAIN Fields) = 2
  /\ Len(calls) = 2
  /\ ~calls[2].keep

----------------------------------------------------------------------------
(* The predicate specification: one predicate checked against one value *)

\* the Results variables do not take part in the predicate specification
ResultsIdle ==
  /\ Fields = NewResults.Fields
  /\ Valid = NewResults.Valid
  /\ pc = "idle"
  /\ order = <<>>
  /\ pi = 0
  /\ ri = 0
  /\ calls = <<>>
  /\ ret = NoReturn

\* a key of the actual map is looked up: it is absent (and reads as nil) or
\* present with some value, nil included
InitIs ==
  /\ ResultsIdle
  /\ of \in SeqsUpTo(CandidateDefs, MaxDefs) \cup {<<d>> : d \in LeafDefs}
  /\ keyExists \in BOOLEAN
  /\ v \in IF keyExists THEN Values ELSE {NilValue}
  /\ ipc = "start"
  /\ i = 0
  /\ evaluated = <<>>
  /\ vr = NoReturn

\* the predicate of[1] is the schema leaf: of[1].check(v, keyExists)
CheckLeaf ==
  /\ ipc = "start"
  /\ Len(of) = 1
  /\ vr' = check(of[1], v, keyExists)
  /\ ipc' = "leaf"
  /\ UNCHANGED <<of, v, keyExists, i, evaluated>>
  /\ UNCHANGED rvars

\* IsAny(of...) is the schema leaf: IsAny(of...).check(v, keyExists), which
\* enters the closure of IsAny when it calls the checker
IsAnyCheck ==
  /\ ipc = "start"
  /\ IF CallsChecker(IsAny(of), keyExists)
       THEN /\ ipc' = "loop"
            /\ i' = 1
            /\ vr' = vr
       ELSE /\ ipc' = "done"
            /\ i' = i
            /\ vr' = check(IsAny(of), v, keyExists)
  /\ UNCHANGED <<of, v, keyExists, evaluated>>
  /\ UNCHANGED rvars

IsAnyLoopInverted ==
  /\ ipc = "loop"
  /\ i <= Len(of)
  /\ evaluated' = Append(evaluated, i)
  /\ LET r == check(of[i], v, TRUE)
     IN IF ~r.Valid
          THEN vr' = r /\ ipc' = "done" /\ i' = i
          ELSE vr' = vr /\ ipc' = ipc /\ i' = i + 1
  /\ UNCHANGED <<of, v, keyExists>>
  /\ UNCHANGED rvars

IsAnyLoopReturnsValidVR ==
  /\ ipc = "loop"
  /\ i <= Len(of)
  /\ evaluated' = Append(evaluated, i)
  /\ LET r == check(of[i], v, TRUE)
     IN IF r.Valid
          THEN vr' = ValidVR /\ ipc' = "done" /\ i' = i
          ELSE vr' = vr /\ ipc' = ipc /\ i' = i + 1
  /\ UNCHANGED <<of, v, keyExists>>
  /\ UNCHANGED rvars

\* one pass of the loop of the closure: vr := def.check(v, true), returned
\* when it is valid
IsAnyLoop ==
  /\ ipc = "loop"
  /\ i <= Len(of)
  /\ evaluated' = Append(evaluated, i)
  /\ LET r == check(of[i], v, TRUE)
     IN IF r.Valid
          THEN vr' = r /\ ipc' = "done" /\ i' = i
          ELSE vr' = vr /\ ipc' = ipc /\ i' = i + 1
  /\ UNCHANGED <<of, v, keyExists>>
  /\ UNCHANGED rvars

\* the loop is exhausted: the closure returns its own failure
IsAnyNone ==
  /\ ipc = "loop"
  /\ i > Len(of)
  /\ vr' = ValueResult(FALSE,
             Sprintf("Value was none of %#v, actual value was %#v",
                     <<StringSlice(Names(of)), v>>))
  /\ ipc' = "done"
  /\ UNCHANGED <<of, v, keyExists, i, evaluated>>
  /\ UNCHANGED rvars

NextIs ==
  \/ CheckLeaf
  \/ IsAnyCheck
  \/ IsAnyLoop
  \/ IsAnyNone

SpecIs == InitIs /\ [][NextIs]_vars

----------------------------------------------------------------------------
(* Properties of the predicates *)

\* candidate k of IsAny, checked on its own against the value at hand
CandidateValid(k) == check(of[k], v, TRUE).Valid

\* C7: on a value x, IsAny(p1..pn).check(x) is valid exactly when some
\* pi.check(x) is valid (never with no candidate), and when all fail it is
\* the one failure whose message holds the names of all candidates and the
\* actual value, not the message of any candidate
C7_IsAnyIsDisjunction ==
  (ipc = "done" /\ keyExists) =>
    /\ vr.Valid <=> \E k \in 1..Len(of) : CandidateValid(k)
    /\ Len(of) = 0 => ~vr.Valid
    /\ ~vr.Valid =>
         /\ vr.Message = <<"Value was none of %#v, actual value was %#v",
                           StringSlice([k \in 1..Len(of) |-> of[k].name]), v>>
         /\ \A k \in 1..Len(of) : vr.Message # check(of[k], v, TRUE).Message

\* IsAny of two different candidates that both fail on a value that is not nil
C7_Witness ==
  /\ ipc = "done"
  /\ keyExists
  /\ Len(of) >= 2
  /\ of[1].name # of[2].name
  /\ v # NilValue
  /\ ~vr.Valid
  /\ evaluated = [k \in 1..Len(of) |-> k]

\* C8: IsAny evaluates its candidates in declaration order; every candidate
\* evaluated before the last one has failed; when some candidate is valid
\* the record returned is that of the lowest-indexed valid candidate, its
\* message included, and no candidate after it is evaluated
C8_IsAnyFirstValidShortCircuit ==
  ipc \in {"loop", "done"} =>
    /\ \A k \in 1..Len(evaluated) : evaluated[k] = k
    /\ Len(evaluated) <= Len(of)
    /\ \A k \in 1..Len(evaluated) - 1 : ~CandidateValid(k)
    /\ (ipc = "done" /\ vr.Valid) =>
         \E k \in 1..Len(of) :
           /\ CandidateValid(k)
           /\ \A j \in 1..k - 1 : ~CandidateValid(j)
           /\ vr = check(of[k], v, TRUE)
           /\ Len(evaluated) = k

\* IsAny whose first candidate fails, whose second is valid with a message
\* of its own, and whose last, valid as well, is not evaluated
C8_Witness ==
  /\ ipc = "done"
  /\ Len(of) = 3
  /\ ~CandidateValid(1)
  /\ of[2] = IsCallerDef
  /\ CandidateValid(3)
  /\ vr = ValueResult(TRUE, <<"an int: %v", v>>)
  /\ evaluated = <<1, 2>>

\* C9: KeyMissing matches exactly when the key is absent and KeyPresent
\* exactly when it is present (a nil value included), whether the predicate
\* is the schema leaf itself or the candidate of an IsAny at that leaf
C9_KeyPredicatesFollowExistence ==
  /\ (ipc \in {"leaf", "done"} /\ of = <<KeyMissing>>) =>
       (vr.Valid <=> ~keyExists)
  /\ (ipc \in {"leaf", "done"} /\ of = <<KeyPresent>>) =>
       (vr.Valid <=> keyExists)

\* C10: on a value v, IsStringContaining(needle).check(v) is the
\* type-mismatch failure when v is not a string, the "did not contain
\* substring" failure when v is a string without needle in it, and the valid
\* record when v is a string with needle in it
C10_IsStringContainingCases ==
  (ipc = "leaf" /\ keyExists /\ of[1].name = "is string containing") =>
    LET needle == of[1].checker[2]
        within == v.type = "string" /\
                  \E pre, post \in Strings : v.val = pre \o needle \o post
    IN /\ v.type # "string" =>
            vr = ValueResult(FALSE, <<"Unable to convert '%v' to string", v>>)
       /\ (v.type = "string" /\ ~within) =>
            vr = ValueResult(FALSE,
                   <<"String '%s' did not contain substring '%s'",
                     v, StringValue(needle)>>)
       /\ within => vr = ValidVR
       /\ (v.type = "string" /\ needle = <<>>) => vr = ValidVR

\* the needle found at the end of a longer string
C10_Witness ==
  /\ ipc = "leaf"
  /\ keyExists
  /\ of = <<IsStringContaining(<<"b">>)>>
  /\ v = StringValue(<<"a", "b">>)
  /\ vr = ValidVR

====
